---- MODULE Spec2Model ----
(***************************************************************************)
(* AudioFilePlayerProcessor (Source/PluginProcessor.cpp): the real-time    *)
(* callback processBlock, the MIDI loader loadMIDIFile, the Safety Flush   *)
(* sendAllNotesOff and the sink call lumiMIDIEvent, as a state machine of  *)
(* two threads: the host's audio thread ("rt") and one control-plane       *)
(* thread ("ctl").                                                         *)
(*                                                                         *)
(* Time is counted in sample periods, so that 1.0 / getSampleRate() is 1.  *)
(* A MIDI file stores ticks; MidiFile::readFrom keeps the tick count as    *)
(* the timestamp, which processBlock would read as seconds (ticks *        *)
(* SampleRate sample periods), and convertTimestampTicksToSeconds turns it *)
(* into seconds; the files of the model have a tempo map that makes one    *)
(* tick last one sample period.                                            *)
(***************************************************************************)
EXTENDS Integers, Sequences, FiniteSets, TLC

\* ------------------------------------------------------------------ bounds
MaxTracks == 2
MaxEvents == 3

\* getSampleRate(), in samples per second (PluginProcessor.cpp:139)
SampleRate == 2
\* 1.0 / getSampleRate(), in sample periods (PluginProcessor.cpp:139)
SampleLength == 1
\* startTime, the constant window start (PluginProcessor.cpp:137)
StartTime == 0
\* the channel count of sendAllNotesOff's loop (PluginProcessor.cpp:191)
NumChannels == 16

\* ------------------------------------------------------------------ inputs
\* A track of n events one tick apart, the first at tick 0; the payload of an
\* event is a note message whose key names its place.
Ramp(n) == [k \in 1..n |-> [ts |-> k - 1, data |-> [kind |-> "note", key |-> k]]]

\* A timeline of k tracks: the first has n events, each next one event less.
Timeline(k, n) == [t \in 1..k |-> Ramp(IF n >= t THEN n - t + 1 ELSE 0)]

Timelines == {Timeline(k, n) : k \in 0..MaxTracks, n \in 0..MaxEvents}

\* A file is readable and well formed (ok) with its tracks, or it is not.
BadFile == [ok |-> FALSE, tracks |-> <<>>]

Files == {[ok |-> TRUE, tracks |-> t] : t \in Timelines} \cup {BadFile}

\* The audio files of the control plane: two that a registered format
\* decodes, one that exists and has no decoder, one that does not exist.
AudioFiles ==
    {[path |-> "a.wav", exists |-> TRUE, decodable |-> TRUE],
     [path |-> "b.wav", exists |-> TRUE, decodable |-> TRUE],
     [path |-> "c.txt", exists |-> TRUE, decodable |-> FALSE],
     [path |-> "d.wav", exists |-> FALSE, decodable |-> FALSE]}

NoFile == [ok |-> FALSE, tracks |-> <<"none">>]

VARIABLES
    \* the processor's members
    MIDIFile,            \* juce::MidiFile: the tracks, each a sequence of events
    numTracks,           \* std::atomic<int>
    currentTrack,        \* std::atomic<int>, 0-based
    trackHasChanged,     \* bool
    isPlayingSomething,  \* bool
    nextStartTime,       \* double, in sample periods
    lumi,                \* whether the device pointer is set
    processLock,         \* juce::CriticalSection: "none", "rt" or "ctl"
    \* processBlock's position and locals
    rtPc,
    theSequence,         \* the pointer of line 135: a 0-based index, -1 for nullptr
    dangling,            \* the track theSequence points to has been destroyed
    staleSeq,            \* what the destroyed track held
    endTime,             \* the local of line 138
    i,                   \* the loop index of line 163
    \* one block's outputs
    midiMessages,        \* the caller's MidiBuffer
    sinkCalls,           \* the payloads given to lumiMIDIEvent
    deviceLog,           \* the payloads given to lumi->sendMessage
    pulls,               \* the calls of transportSource.getNextAudioBlock
    \* the control-plane thread
    ctlPc,
    stream,              \* the file loadMIDIFile is reading
    \* history
    branch,              \* the path the block took
    flushes,             \* the calls of sendAllNotesOff in the block
    scanTrack,           \* what the track held when line 135 selected it
    switchPending,       \* a track switch has had no Safety Flush since
    preLoad,             \* what the running load of a bad file started from
    trackPlayed,         \* the last block forwarded the current track's events,
                         \* isPlayingSomething is set, no load or switch since
    freshLoad,           \* a load of a readable file has returned and no block
                         \* has come to line 142 since
    forwardedSinceFlush, \* an event has gone to the sink since the last Safety
                         \* Flush, or since the start when there has been none
    currentlyLoadedFile, \* juce::File: the path of the audio file, "" at first
    currentAudioFileSource, \* the path the reader source reads, "none": nullptr
    transportSource,     \* the source installed in the transport, "none": nullptr
    audioPc,             \* the control thread's place in the audio-file calls
    audioFile,           \* loadAudioFileIntoTransport's argument
    reader,              \* the reader of line 249, "none": nullptr
    destData,            \* the block getStateInformation has written last
    lastLoaded,          \* the path of the last audio file a reader was made for
    savedFor,            \* lastLoaded when destData was written
    preAudio             \* the installed source and the path at the load's call

members == <<MIDIFile, numTracks, currentTrack, trackHasChanged,
             isPlayingSomething, nextStartTime, lumi, processLock>>
rtLocals == <<rtPc, theSequence, dangling, staleSeq, endTime, i>>
outputs == <<midiMessages, sinkCalls, deviceLog, pulls>>
ctlVars == <<ctlPc, stream>>
history == <<branch, flushes, scanTrack, switchPending, preLoad, trackPlayed,
             freshLoad>>
midiVars == <<members, rtLocals, outputs, ctlVars, history, forwardedSinceFlush>>
audioVars == <<currentlyLoadedFile, currentAudioFileSource, transportSource,
               audioPc, audioFile, reader, destData, lastLoaded, savedFor,
               preAudio>>
vars == <<midiVars, audioVars>>

NoPre == <<"none">>

\* No audio file: the argument and the reader outside a load, the block
\* before getStateInformation has run.
NoAudioFile == [path |-> "", exists |-> FALSE, decodable |-> FALSE]
NoData == [tag |-> "", audiofile |-> ""]

\* The members' initial values are the header's; no timeline is loaded.
Init ==
    /\ MIDIFile = <<>>
    /\ numTracks = 0
    /\ currentTrack = 0
    /\ trackHasChanged = FALSE
    /\ isPlayingSomething = FALSE
    /\ nextStartTime = 0
    /\ lumi \in BOOLEAN
    /\ processLock = "none"
    /\ rtPc = "idle"
    /\ theSequence = -1
    /\ dangling = FALSE
    /\ staleSeq = <<>>
    /\ endTime = 0
    /\ i = 0
    /\ midiMessages = <<>>
    /\ sinkCalls = <<>>
    /\ deviceLog = <<>>
    /\ pulls = 0
    /\ ctlPc = "idle"
    /\ stream = NoFile
    /\ branch = "none"
    /\ flushes = 0
    /\ scanTrack = <<>>
    /\ switchPending = FALSE
    /\ preLoad = NoPre
    /\ trackPlayed = FALSE
    /\ freshLoad = FALSE
    /\ forwardedSinceFlush = FALSE
    /\ currentlyLoadedFile = ""
    /\ currentAudioFileSource = "none"
    /\ transportSource = "none"
    /\ audioPc = "idle"
    /\ audioFile = NoAudioFile
    /\ reader = "none"
    /\ destData = NoData
    /\ lastLoaded = ""
    /\ savedFor = ""
    /\ preAudio = NoPre

\* ------------------------------------------------------------- the timeline
\* MidiFile::readFrom: the timestamps are the file's ticks, a number that
\* processBlock would read as seconds.
ReadFrom(f) ==
    IF f.ok
    THEN [t \in 1..Len(f.tracks) |->
            [k \in 1..Len(f.tracks[t]) |->
                [ts |-> f.tracks[t][k].ts * SampleRate,
                 data |-> f.tracks[t][k].data]]]
    ELSE <<>>

\* MidiFile::convertTimestampTicksToSeconds, on every event of every track.
ConvertTimestampTicksToSeconds(file) ==
    [t \in 1..Len(file) |->
        [k \in 1..Len(file[t]) |->
            [ts |-> file[t][k].ts \div SampleRate, data |-> file[t][k].data]]]

\* MidiFile::getTrack: the track's 0-based index, -1 for the nullptr of an
\* index out of range.
GetTrack(index) == IF index >= 0 /\ index < Len(MIDIFile) THEN index ELSE -1

\* MidiMessageSequence::getEndTime: the last event's timestamp, 0 if none.
GetEndTime(seq) == IF Len(seq) = 0 THEN 0 ELSE seq[Len(seq)].ts

\* ------------------------------------------------------------ Safety Flush
AllNotesOff(ch) == [kind |-> "allNotesOff", channel |-> ch]
AllSoundOff(ch) == [kind |-> "allSoundOff", channel |-> ch]
AllControllersOff(ch) == [kind |-> "allControllersOff", channel |-> ch]

\* The loop of sendAllNotesOff, from channel ch on.
RECURSIVE FlushFrom(_, _)
FlushFrom(buf, ch) ==
    IF ch > NumChannels THEN buf
    ELSE FlushFrom(buf \o <<AllNotesOff(ch), AllSoundOff(ch), AllControllersOff(ch)>>,
                   ch + 1)

\* sendAllNotesOff with its loop started at channel 2
SendAllNotesOff_FromChannel2(buf) == FlushFrom(buf, 2)

\* sendAllNotesOff's effect on the MidiBuffer; it also clears isPlayingSomething.
SendAllNotesOff(buf) == FlushFrom(buf, 1)

\* The Safety Flush as the design states it: channel 1 to 16, and for each
\* channel all notes off, all sound off, all controllers off.
FlushKinds == <<"allNotesOff", "allSoundOff", "allControllersOff">>

SafetyFlush ==
    [k \in 1..(3 * NumChannels) |->
        [kind |-> FlushKinds[((k - 1) % 3) + 1], channel |-> ((k - 1) \div 3) + 1]]

\* switchPending once the MidiBuffer has become buf: a complete Safety Flush
\* appended to it ends the wait.
PendingAfter(buf) ==
    IF buf = midiMessages \o SafetyFlush THEN FALSE ELSE switchPending

\* forwardedSinceFlush once the MidiBuffer has become buf and the calls of the
\* sink calls: a complete Safety Flush starts the count again, a call of the
\* sink after it counts.
ForwardedAfter(buf, calls) ==
    IF buf = midiMessages \o SafetyFlush THEN FALSE
    ELSE IF Len(calls) > Len(sinkCalls) THEN TRUE
    ELSE forwardedSinceFlush

\* ------------------------------------------------------------ control plane
Alive == rtPc # "crashed"

\* the positions of processBlock at which theSequence has been set
PointerPcs == {"prelude", "branch", "scan"}

\* loadMIDIFile, line 99: MIDIFile.clear() destroys the tracks. No lock is
\* taken anywhere in loadMIDIFile.
LoadClear(f) ==
    /\ Alive
    /\ ctlPc = "idle"
    /\ ctlPc' = "l_read"
    /\ stream' = f
    /\ MIDIFile' = <<>>
    /\ IF rtPc \in PointerPcs /\ theSequence >= 0 /\ ~dangling
       THEN dangling' = TRUE /\ staleSeq' = MIDIFile[theSequence + 1]
       ELSE UNCHANGED <<dangling, staleSeq>>
    /\ preLoad' = IF f.ok THEN NoPre
                  ELSE <<MIDIFile, numTracks, currentTrack, trackHasChanged>>
    /\ switchPending' = FALSE
    /\ trackPlayed' = FALSE
    /\ freshLoad' = FALSE
    /\ UNCHANGED <<numTracks, currentTrack, trackHasChanged, isPlayingSomething,
                   nextStartTime, lumi, processLock>>
    /\ UNCHANGED <<rtPc, theSequence, endTime, i>>
    /\ UNCHANGED outputs
    /\ UNCHANGED <<branch, flushes, scanTrack>>
    /\ UNCHANGED forwardedSinceFlush
    /\ UNCHANGED audioVars

\* lines 101-102: the stream is opened and read; the result of readFrom is
\* not looked at.
LoadRead ==
    /\ Alive
    /\ ctlPc = "l_read"
    /\ ctlPc' = "l_conv"
    /\ MIDIFile' = ReadFrom(stream)
    /\ UNCHANGED <<numTracks, currentTrack, trackHasChanged, isPlayingSomething,
                   nextStartTime, lumi, processLock>>
    /\ UNCHANGED <<rtLocals, outputs, stream, history>>
    /\ UNCHANGED forwardedSinceFlush
    /\ UNCHANGED audioVars

\* line 107
LoadConvert ==
    /\ Alive
    /\ ctlPc = "l_conv"
    /\ ctlPc' = "l_num"
    /\ MIDIFile' = ConvertTimestampTicksToSeconds(MIDIFile)
    /\ UNCHANGED <<numTracks, currentTrack, trackHasChanged, isPlayingSomething,
                   nextStartTime, lumi, processLock>>
    /\ UNCHANGED <<rtLocals, outputs, stream, history>>
    /\ UNCHANGED forwardedSinceFlush
    /\ UNCHANGED audioVars

\* line 109
LoadStoreNumTracks ==
    /\ Alive
    /\ ctlPc = "l_num"
    /\ ctlPc' = "l_cur"
    /\ numTracks' = Len(MIDIFile)
    /\ UNCHANGED <<MIDIFile, currentTrack, trackHasChanged, isPlayingSomething,
                   nextStartTime, lumi, processLock>>
    /\ UNCHANGED <<rtLocals, outputs, stream, history>>
    /\ UNCHANGED forwardedSinceFlush
    /\ UNCHANGED audioVars

\* loadMIDIFile without its line 110: currentTrack keeps its value
LoadStoreCurrentTrack_Skipped ==
    /\ Alive
    /\ ctlPc = "l_cur"
    /\ ctlPc' = "l_chg"
    /\ UNCHANGED <<members, rtLocals, outputs, stream, history>>
    /\ UNCHANGED forwardedSinceFlush
    /\ UNCHANGED audioVars

\* line 110
LoadStoreCurrentTrack ==
    /\ Alive
    /\ ctlPc = "l_cur"
    /\ ctlPc' = "l_chg"
    /\ currentTrack' = 0
    /\ UNCHANGED <<MIDIFile, numTracks, trackHasChanged, isPlayingSomething,
                   nextStartTime, lumi, processLock>>
    /\ UNCHANGED <<rtLocals, outputs, stream, history>>
    /\ UNCHANGED forwardedSinceFlush
    /\ UNCHANGED audioVars

\* line 111 with the load also putting nextStartTime back to 0
LoadClearTrackHasChanged_ResetsWindow ==
    /\ Alive
    /\ ctlPc = "l_chg"
    /\ ctlPc' = "l_ret"
    /\ trackHasChanged' = FALSE
    /\ nextStartTime' = 0
    /\ UNCHANGED <<MIDIFile, numTracks, currentTrack, isPlayingSomething,
                   lumi, processLock>>
    /\ UNCHANGED <<rtLocals, outputs, stream, history>>
    /\ UNCHANGED forwardedSinceFlush
    /\ UNCHANGED audioVars

\* line 111
LoadClearTrackHasChanged ==
    /\ Alive
    /\ ctlPc = "l_chg"
    /\ ctlPc' = "l_ret"
    /\ trackHasChanged' = FALSE
    /\ UNCHANGED <<MIDIFile, numTracks, currentTrack, isPlayingSomething,
                   nextStartTime, lumi, processLock>>
    /\ UNCHANGED <<rtLocals, outputs, stream, history>>
    /\ UNCHANGED forwardedSinceFlush
    /\ UNCHANGED audioVars

\* line 112: loadMIDIFile returns.
LoadReturn ==
    /\ Alive
    /\ ctlPc = "l_ret"
    /\ ctlPc' = "idle"
    /\ stream' = NoFile
    /\ preLoad' = NoPre
    /\ freshLoad' = stream.ok
    /\ UNCHANGED <<members, rtLocals, outputs>>
    /\ UNCHANGED <<branch, flushes, scanTrack, switchPending, trackPlayed>>
    /\ UNCHANGED forwardedSinceFlush
    /\ UNCHANGED audioVars

\* The track switch of the design (selectTrack); PluginProcessor.cpp does not
\* hold it. Its first step is the blocking acquire of the shared lock.
SelectTrackLock ==
    /\ Alive
    /\ ctlPc = "idle"
    /\ processLock = "none"
    /\ processLock' = "ctl"
    /\ ctlPc' = "s_locked"
    /\ UNCHANGED <<MIDIFile, numTracks, currentTrack, trackHasChanged,
                   isPlayingSomething, nextStartTime, lumi>>
    /\ UNCHANGED <<rtLocals, outputs, stream, history>>
    /\ UNCHANGED forwardedSinceFlush
    /\ UNCHANGED audioVars

\* The track switch under the lock: an index in range is stored and
\* trackHasChanged set; one out of range changes nothing. The lock is released.
SelectTrack(index) ==
    /\ Alive
    /\ ctlPc = "s_locked"
    /\ ctlPc' = "idle"
    /\ processLock' = "none"
    /\ IF index >= 0 /\ index < numTracks
       THEN /\ currentTrack' = index
            /\ trackHasChanged' = TRUE
            /\ switchPending' = TRUE
            /\ trackPlayed' = FALSE
       ELSE UNCHANGED <<currentTrack, trackHasChanged, switchPending,
                        trackPlayed>>
    /\ UNCHANGED <<MIDIFile, numTracks, isPlayingSomething, nextStartTime, lumi>>
    /\ UNCHANGED <<rtLocals, outputs, stream>>
    /\ UNCHANGED <<branch, flushes, scanTrack, preLoad, trackPlayed,
                   freshLoad>>
    /\ UNCHANGED forwardedSinceFlush
    /\ UNCHANGED audioVars

\* ---------------------------------------------------------- the audio thread
\* lines 120-125: the host calls processBlock with the block's buffers.
RtBegin ==
    /\ rtPc = "idle"
    /\ rtPc' = "pull"
    /\ UNCHANGED <<members, outputs, ctlVars, history>>
    /\ UNCHANGED <<theSequence, dangling, staleSeq, endTime, i>>
    /\ UNCHANGED forwardedSinceFlush
    /\ UNCHANGED audioVars

\* processBlock pulling the audio only when the lock is free
RtPull_WhenLockFree ==
    /\ rtPc = "pull"
    /\ rtPc' = "lock"
    /\ pulls' = IF processLock = "none" THEN pulls + 1 ELSE pulls
    /\ UNCHANGED <<members, ctlVars, history>>
    /\ UNCHANGED <<theSequence, dangling, staleSeq, endTime, i>>
    /\ UNCHANGED <<midiMessages, sinkCalls, deviceLog>>
    /\ UNCHANGED forwardedSinceFlush
    /\ UNCHANGED audioVars

\* line 127: transportSource.getNextAudioBlock
RtPull ==
    /\ rtPc = "pull"
    /\ rtPc' = "lock"
    /\ pulls' = pulls + 1
    /\ UNCHANGED <<members, ctlVars, history>>
    /\ UNCHANGED <<theSequence, dangling, staleSeq, endTime, i>>
    /\ UNCHANGED <<midiMessages, sinkCalls, deviceLog>>
    /\ UNCHANGED forwardedSinceFlush
    /\ UNCHANGED audioVars

\* processBlock with a ScopedLock: it waits until the lock is free
RtTryLock_Blocking ==
    /\ rtPc = "lock"
    /\ processLock = "none"
    /\ processLock' = "rt"
    /\ rtPc' = "check"
    /\ UNCHANGED <<MIDIFile, numTracks, currentTrack, trackHasChanged,
                   isPlayingSomething, nextStartTime, lumi>>
    /\ UNCHANGED <<theSequence, dangling, staleSeq, endTime, i>>
    /\ UNCHANGED <<outputs, ctlVars, history>>
    /\ UNCHANGED forwardedSinceFlush
    /\ UNCHANGED audioVars

\* lines 129-131: the ScopedTryLock; it never waits.
RtTryLock ==
    /\ rtPc = "lock"
    /\ IF processLock = "none"
       THEN processLock' = "rt" /\ rtPc' = "check"
       ELSE processLock' = processLock /\ rtPc' = "notAcquired"
    /\ UNCHANGED <<MIDIFile, numTracks, currentTrack, trackHasChanged,
                   isPlayingSomething, nextStartTime, lumi>>
    /\ UNCHANGED <<theSequence, dangling, staleSeq, endTime, i>>
    /\ UNCHANGED <<outputs, ctlVars, history>>
    /\ UNCHANGED forwardedSinceFlush
    /\ UNCHANGED audioVars

\* the not-acquired branch flushing without looking at isPlayingSomething
RtNotAcquired_AlwaysFlushes ==
    /\ rtPc = "notAcquired"
    /\ rtPc' = "exit"
    /\ branch' = "notAcquired"
    /\ midiMessages' = SendAllNotesOff(midiMessages)
    /\ isPlayingSomething' = FALSE
    /\ flushes' = flushes + 1
    /\ switchPending' = PendingAfter(midiMessages')
    /\ forwardedSinceFlush' = ForwardedAfter(midiMessages', sinkCalls)
    /\ UNCHANGED <<MIDIFile, numTracks, currentTrack, trackHasChanged,
                   nextStartTime, lumi, processLock>>
    /\ UNCHANGED <<theSequence, dangling, staleSeq, endTime, i>>
    /\ UNCHANGED <<sinkCalls, deviceLog, pulls, ctlVars>>
    /\ UNCHANGED <<scanTrack, preLoad, trackPlayed,
                   freshLoad>>
    /\ UNCHANGED audioVars

\* lines 181-186: the lock was not acquired.
RtNotAcquired ==
    /\ rtPc = "notAcquired"
    /\ rtPc' = "exit"
    /\ branch' = "notAcquired"
    /\ IF isPlayingSomething
       THEN /\ midiMessages' = SendAllNotesOff(midiMessages)
            /\ isPlayingSomething' = FALSE
            /\ flushes' = flushes + 1
            /\ switchPending' = PendingAfter(midiMessages')
            /\ forwardedSinceFlush' = ForwardedAfter(midiMessages', sinkCalls)
       ELSE UNCHANGED <<midiMessages, isPlayingSomething, flushes, switchPending,
                        forwardedSinceFlush>>
    /\ UNCHANGED <<MIDIFile, numTracks, currentTrack, trackHasChanged,
                   nextStartTime, lumi, processLock>>
    /\ UNCHANGED <<theSequence, dangling, staleSeq, endTime, i>>
    /\ UNCHANGED <<sinkCalls, deviceLog, pulls, ctlVars>>
    /\ UNCHANGED <<scanTrack, preLoad, trackPlayed,
                   freshLoad>>
    /\ UNCHANGED audioVars

\* line 133 with a Safety Flush when there is no track and something sounds
RtCheckTracks_FlushWhenEmpty ==
    /\ rtPc = "check"
    /\ IF numTracks > 0
       THEN rtPc' = "getTrack" /\ branch' = branch
       ELSE rtPc' = "exit" /\ branch' = "noTracks"
    /\ IF numTracks = 0 /\ isPlayingSomething
       THEN /\ midiMessages' = SendAllNotesOff(midiMessages)
            /\ isPlayingSomething' = FALSE
            /\ flushes' = flushes + 1
            /\ switchPending' = PendingAfter(midiMessages')
            /\ forwardedSinceFlush' = ForwardedAfter(midiMessages', sinkCalls)
       ELSE UNCHANGED <<midiMessages, isPlayingSomething, flushes, switchPending,
                        forwardedSinceFlush>>
    /\ UNCHANGED <<MIDIFile, numTracks, currentTrack, trackHasChanged,
                   nextStartTime, lumi, processLock>>
    /\ UNCHANGED <<theSequence, dangling, staleSeq, endTime, i>>
    /\ UNCHANGED <<sinkCalls, deviceLog, pulls, ctlVars>>
    /\ UNCHANGED <<scanTrack, preLoad, trackPlayed, freshLoad>>
    /\ UNCHANGED audioVars

\* line 133
RtCheckTracks ==
    /\ rtPc = "check"
    /\ IF numTracks > 0
       THEN rtPc' = "getTrack" /\ branch' = branch
       ELSE rtPc' = "exit" /\ branch' = "noTracks"
    /\ UNCHANGED <<members, outputs, ctlVars>>
    /\ UNCHANGED <<theSequence, dangling, staleSeq, endTime, i>>
    /\ UNCHANGED <<flushes, scanTrack, switchPending, preLoad, trackPlayed,
                   freshLoad>>
    /\ UNCHANGED forwardedSinceFlush
    /\ UNCHANGED audioVars

\* line 135
RtGetTrack ==
    /\ rtPc = "getTrack"
    /\ rtPc' = "prelude"
    /\ theSequence' = GetTrack(currentTrack)
    /\ dangling' = FALSE
    /\ staleSeq' = <<>>
    /\ scanTrack' = IF GetTrack(currentTrack) >= 0
                    THEN MIDIFile[GetTrack(currentTrack) + 1] ELSE <<>>
    /\ UNCHANGED <<members, outputs, ctlVars>>
    /\ UNCHANGED <<endTime, i>>
    /\ UNCHANGED <<branch, flushes, switchPending, preLoad, trackPlayed,
                   freshLoad>>
    /\ UNCHANGED forwardedSinceFlush
    /\ UNCHANGED audioVars

\* What a read through theSequence can return: the track, if it is alive; what
\* the destroyed track held or an emptied object, if it has been destroyed;
\* nothing through nullptr.
Views ==
    IF theSequence < 0 THEN {}
    ELSE IF dangling THEN {staleSeq, <<>>}
    ELSE {MIDIFile[theSequence + 1]}

\* A read through nullptr or through a destroyed track may end the process.
RtCrash ==
    /\ \/ rtPc \in {"prelude", "scan"}
       \/ rtPc = "branch" /\ isPlayingSomething
    /\ theSequence < 0 \/ dangling
    /\ rtPc' = "crashed"
    /\ UNCHANGED <<members, outputs, ctlVars, history>>
    /\ UNCHANGED <<theSequence, dangling, staleSeq, endTime, i>>
    /\ UNCHANGED forwardedSinceFlush
    /\ UNCHANGED audioVars

\* line 142 comparing the boundary stored at line 145 with itself
Discontinuity_SameBoundary(start, next) ==
    (IF next - next >= 0 THEN next - next ELSE 0) > SampleLength
    /\ next > 0

\* line 142: the transport position has moved
Discontinuity(start, next) ==
    (IF start - next >= 0 THEN start - next ELSE next - start) > SampleLength
    /\ next > 0

\* lines 137-145
RtPrelude ==
    /\ rtPc = "prelude"
    /\ rtPc' = "branch"
    /\ \E seq \in Views :
        /\ endTime' = GetEndTime(seq)
        /\ nextStartTime' = GetEndTime(seq)
    /\ IF Discontinuity(StartTime, nextStartTime)
       THEN /\ midiMessages' = SendAllNotesOff(midiMessages)
            /\ isPlayingSomething' = FALSE
            /\ flushes' = flushes + 1
            /\ switchPending' = PendingAfter(midiMessages')
            /\ forwardedSinceFlush' = ForwardedAfter(midiMessages', sinkCalls)
       ELSE UNCHANGED <<midiMessages, isPlayingSomething, flushes, switchPending,
                        forwardedSinceFlush>>
    /\ UNCHANGED <<MIDIFile, numTracks, currentTrack, trackHasChanged, lumi,
                   processLock>>
    /\ UNCHANGED <<theSequence, dangling, staleSeq, i>>
    /\ UNCHANGED <<sinkCalls, deviceLog, pulls, ctlVars>>
    /\ freshLoad' = FALSE
    /\ UNCHANGED <<branch, scanTrack, preLoad, trackPlayed>>
    /\ UNCHANGED audioVars

\* line 148: the timeline has no event left
Exhausted(seq) == isPlayingSomething /\ StartTime >= GetEndTime(seq)

\* lines 148-149
RtExhausted ==
    /\ rtPc = "branch"
    /\ \E seq \in Views : Exhausted(seq)
    /\ rtPc' = "exit"
    /\ branch' = "exhausted"
    /\ midiMessages' = SendAllNotesOff(midiMessages)
    /\ isPlayingSomething' = FALSE
    /\ flushes' = flushes + 1
    /\ switchPending' = PendingAfter(midiMessages')
    /\ forwardedSinceFlush' = ForwardedAfter(midiMessages', sinkCalls)
    /\ UNCHANGED <<MIDIFile, numTracks, currentTrack, trackHasChanged,
                   nextStartTime, lumi, processLock>>
    /\ UNCHANGED <<theSequence, dangling, staleSeq, endTime, i>>
    /\ UNCHANGED <<sinkCalls, deviceLog, pulls, ctlVars>>
    /\ UNCHANGED <<scanTrack, preLoad, trackPlayed,
                   freshLoad>>
    /\ UNCHANGED audioVars

\* lines 151-163 with the flush of line 157 left out
RtTrackChanged_NoFlush ==
    /\ rtPc = "branch"
    /\ ~isPlayingSomething \/ \E seq \in Views : ~Exhausted(seq)
    /\ rtPc' = "scan"
    /\ branch' = "scanned"
    /\ i' = 0
    /\ trackHasChanged' = FALSE
    /\ UNCHANGED <<MIDIFile, numTracks, currentTrack, isPlayingSomething,
                   nextStartTime, lumi, processLock>>
    /\ UNCHANGED <<theSequence, dangling, staleSeq, endTime>>
    /\ UNCHANGED <<outputs, ctlVars>>
    /\ UNCHANGED <<flushes, scanTrack, switchPending, preLoad, trackPlayed,
                   freshLoad>>
    /\ UNCHANGED forwardedSinceFlush
    /\ UNCHANGED audioVars

\* lines 151-163: the track has changed; the loop starts.
RtTrackChanged ==
    /\ rtPc = "branch"
    /\ ~isPlayingSomething \/ \E seq \in Views : ~Exhausted(seq)
    /\ rtPc' = "scan"
    /\ branch' = "scanned"
    /\ i' = 0
    /\ IF trackHasChanged
       THEN /\ trackHasChanged' = FALSE
            /\ midiMessages' = SendAllNotesOff(midiMessages)
            /\ isPlayingSomething' = FALSE
            /\ flushes' = flushes + 1
            /\ switchPending' = PendingAfter(midiMessages')
            /\ forwardedSinceFlush' = ForwardedAfter(midiMessages', sinkCalls)
       ELSE UNCHANGED <<trackHasChanged, midiMessages, isPlayingSomething,
                        flushes, switchPending, forwardedSinceFlush>>
    /\ UNCHANGED <<MIDIFile, numTracks, currentTrack, nextStartTime, lumi,
                   processLock>>
    /\ UNCHANGED <<theSequence, dangling, staleSeq, endTime>>
    /\ UNCHANGED <<sinkCalls, deviceLog, pulls, ctlVars>>
    /\ UNCHANGED <<scanTrack, preLoad, trackPlayed,
                   freshLoad>>
    /\ UNCHANGED audioVars

\* line 167 with <= in the place of <
InWindow_Closed(event) == event.ts >= StartTime /\ event.ts <= endTime

\* line 167: the event falls in the window
InWindow(event) == event.ts >= StartTime /\ event.ts < endTime

\* lines 114-118: lumiMIDIEvent; the device gets the payload if there is one.
LumiMIDIEvent(log, message) == IF lumi THEN Append(log, message) ELSE log

\* lines 163-176 without the assignment of lines 172-174
RtScan_FlagNotSet ==
    /\ rtPc = "scan"
    /\ \E seq \in Views :
        /\ i < Len(seq)
        /\ IF InWindow(seq[i + 1])
           THEN /\ sinkCalls' = Append(sinkCalls, seq[i + 1].data)
                /\ deviceLog' = LumiMIDIEvent(deviceLog, seq[i + 1].data)
                /\ isPlayingSomething' = isPlayingSomething
           ELSE UNCHANGED <<sinkCalls, deviceLog, isPlayingSomething>>
    /\ i' = i + 1
    /\ rtPc' = "scan"
    /\ forwardedSinceFlush' = ForwardedAfter(midiMessages, sinkCalls')
    /\ UNCHANGED <<MIDIFile, numTracks, currentTrack, trackHasChanged,
                   nextStartTime, lumi, processLock>>
    /\ UNCHANGED <<theSequence, dangling, staleSeq, endTime>>
    /\ UNCHANGED <<midiMessages, pulls, ctlVars, history>>
    /\ UNCHANGED audioVars

\* lines 163-176 with the addEvent of line 170, which the source has as a
\* comment, in force: the event goes to the MidiBuffer as well
RtScan_AlsoToMidiBuffer ==
    /\ rtPc = "scan"
    /\ \E seq \in Views :
        /\ i < Len(seq)
        /\ IF InWindow(seq[i + 1])
           THEN /\ sinkCalls' = Append(sinkCalls, seq[i + 1].data)
                /\ deviceLog' = LumiMIDIEvent(deviceLog, seq[i + 1].data)
                /\ isPlayingSomething' = TRUE
                /\ midiMessages' = Append(midiMessages, seq[i + 1].data)
           ELSE UNCHANGED <<sinkCalls, deviceLog, isPlayingSomething,
                            midiMessages>>
    /\ i' = i + 1
    /\ rtPc' = "scan"
    /\ forwardedSinceFlush' = ForwardedAfter(midiMessages', sinkCalls')
    /\ UNCHANGED <<MIDIFile, numTracks, currentTrack, trackHasChanged,
                   nextStartTime, lumi, processLock>>
    /\ UNCHANGED <<theSequence, dangling, staleSeq, endTime>>
    /\ UNCHANGED <<pulls, ctlVars, history>>
    /\ UNCHANGED audioVars

\* lines 163-176: one turn of the loop
RtScan ==
    /\ rtPc = "scan"
    /\ \E seq \in Views :
        /\ i < Len(seq)
        /\ IF InWindow(seq[i + 1])
           THEN /\ sinkCalls' = Append(sinkCalls, seq[i + 1].data)
                /\ deviceLog' = LumiMIDIEvent(deviceLog, seq[i + 1].data)
                /\ isPlayingSomething' = TRUE
           ELSE UNCHANGED <<sinkCalls, deviceLog, isPlayingSomething>>
    /\ i' = i + 1
    /\ rtPc' = "scan"
    /\ forwardedSinceFlush' = ForwardedAfter(midiMessages, sinkCalls')
    /\ UNCHANGED <<MIDIFile, numTracks, currentTrack, trackHasChanged,
                   nextStartTime, lumi, processLock>>
    /\ UNCHANGED <<theSequence, dangling, staleSeq, endTime>>
    /\ UNCHANGED <<midiMessages, pulls, ctlVars, history>>
    /\ UNCHANGED audioVars

\* line 163: the loop ends
RtScanEnd ==
    /\ rtPc = "scan"
    /\ \E seq \in Views : i >= Len(seq)
    /\ rtPc' = "exit"
    /\ UNCHANGED <<members, outputs, ctlVars, history>>
    /\ UNCHANGED <<theSequence, dangling, staleSeq, endTime, i>>
    /\ UNCHANGED forwardedSinceFlush
    /\ UNCHANGED audioVars

\* line 187: processBlock returns; the ScopedTryLock releases what it holds,
\* and the host takes the block's buffers.
RtEnd ==
    /\ rtPc = "exit"
    /\ rtPc' = "idle"
    /\ processLock' = IF processLock = "rt" THEN "none" ELSE processLock
    /\ theSequence' = -1
    /\ dangling' = FALSE
    /\ staleSeq' = <<>>
    /\ endTime' = 0
    /\ i' = 0
    /\ midiMessages' = <<>>
    /\ sinkCalls' = <<>>
    /\ deviceLog' = <<>>
    /\ pulls' = 0
    /\ branch' = "none"
    /\ flushes' = 0
    /\ scanTrack' = <<>>
    /\ trackPlayed' = (/\ branch = "scanned"
                       /\ sinkCalls # <<>>
                       /\ isPlayingSomething
                       /\ ctlPc = "idle"
                       /\ GetTrack(currentTrack) >= 0
                       /\ MIDIFile[currentTrack + 1] = scanTrack)
    /\ UNCHANGED <<MIDIFile, numTracks, currentTrack, trackHasChanged,
                   isPlayingSomething, nextStartTime, lumi>>
    /\ UNCHANGED <<ctlVars, switchPending, preLoad, freshLoad>>
    /\ UNCHANGED forwardedSinceFlush
    /\ UNCHANGED audioVars

RtNext ==
    \/ RtBegin
    \/ RtPull
    \/ RtTryLock
    \/ RtNotAcquired
    \/ RtCheckTracks
    \/ RtGetTrack
    \/ RtCrash
    \/ RtPrelude
    \/ RtExhausted
    \/ RtTrackChanged
    \/ RtScan
    \/ RtScanEnd
    \/ RtEnd

CtlNext ==
    \/ \E f \in Files : LoadClear(f)
    \/ LoadRead
    \/ LoadConvert
    \/ LoadStoreNumTracks
    \/ LoadStoreCurrentTrack
    \/ LoadClearTrackHasChanged
    \/ LoadReturn
    \/ SelectTrackLock
    \/ \E index \in 0..MaxTracks : SelectTrack(index)

\* --------------------------------------------------------- the audio file
\* createFileWithoutCheckingPath of line 228: the file a path names
FileAt(path) ==
    IF \E f \in AudioFiles : f.path = path
    THEN CHOOSE f \in AudioFiles : f.path = path
    ELSE [path |-> path, exists |-> FALSE, decodable |-> FALSE]

\* formatManager.createReaderFor (line 249): a reader of the file, nullptr
\* when no registered format opens it
CreateReaderFor(file) == IF file.decodable THEN file.path ELSE "none"

\* The caller's call of loadAudioFileIntoTransport with a file of its choice.
AudioCall(file) ==
    /\ audioPc = "idle"
    /\ audioPc' = "a_unload"
    /\ audioFile' = file
    /\ preAudio' = <<transportSource, currentlyLoadedFile>>
    /\ UNCHANGED <<currentlyLoadedFile, currentAudioFileSource, transportSource,
                   reader, destData, lastLoaded, savedFor>>
    /\ UNCHANGED midiVars

\* lines 245-247: the previous source is taken out of the transport and
\* deleted.
AudioUnload ==
    /\ audioPc = "a_unload"
    /\ audioPc' = "a_reader"
    /\ transportSource' = "none"
    /\ currentAudioFileSource' = "none"
    /\ UNCHANGED <<currentlyLoadedFile, audioFile, reader, destData, lastLoaded,
                   savedFor, preAudio>>
    /\ UNCHANGED midiVars

\* line 249
AudioCreateReader ==
    /\ audioPc = "a_reader"
    /\ audioPc' = "a_path"
    /\ reader' = CreateReaderFor(audioFile)
    /\ UNCHANGED <<currentlyLoadedFile, currentAudioFileSource, transportSource,
                   audioFile, destData, lastLoaded, savedFor, preAudio>>
    /\ UNCHANGED midiVars

\* line 250: the path is stored whether or not there is a reader.
AudioStorePath ==
    /\ audioPc = "a_path"
    /\ audioPc' = "a_source"
    /\ currentlyLoadedFile' = audioFile.path
    /\ UNCHANGED <<currentAudioFileSource, transportSource, audioFile, reader,
                   destData, lastLoaded, savedFor, preAudio>>
    /\ UNCHANGED midiVars

\* lines 252-262: with a reader, the new source is made and installed.
AudioSetSource ==
    /\ audioPc = "a_source"
    /\ audioPc' = "a_ret"
    /\ IF reader # "none"
       THEN /\ currentAudioFileSource' = reader
            /\ transportSource' = reader
            /\ lastLoaded' = audioFile.path
       ELSE UNCHANGED <<currentAudioFileSource, transportSource, lastLoaded>>
    /\ UNCHANGED <<currentlyLoadedFile, audioFile, reader, destData, savedFor,
                   preAudio>>
    /\ UNCHANGED midiVars

\* line 263: loadAudioFileIntoTransport returns.
AudioReturn ==
    /\ audioPc = "a_ret"
    /\ audioPc' = "idle"
    /\ audioFile' = NoAudioFile
    /\ reader' = "none"
    /\ preAudio' = NoPre
    /\ UNCHANGED <<currentlyLoadedFile, currentAudioFileSource, transportSource,
                   destData, lastLoaded, savedFor>>
    /\ UNCHANGED midiVars

\* lines 211-218: the path of currentlyLoadedFile is written as the
\* attribute "audiofile" of a "plugin-settings" element.
GetStateInformation ==
    /\ audioPc = "idle"
    /\ destData' = [tag |-> "plugin-settings", audiofile |-> currentlyLoadedFile]
    /\ savedFor' = lastLoaded
    /\ UNCHANGED <<currentlyLoadedFile, currentAudioFileSource, transportSource,
                   audioPc, audioFile, reader, lastLoaded, preAudio>>
    /\ UNCHANGED midiVars

\* The blocks a host may hand to setStateInformation: one that is no XML
\* (getXmlFromBinary returns nullptr, the empty tag), one of another tag, and
\* those getStateInformation can have written.
StateBlocks ==
    {NoData, [tag |-> "other-settings", audiofile |-> "a.wav"]}
        \cup {[tag |-> "plugin-settings", audiofile |-> f.path] : f \in AudioFiles}
        \cup {[tag |-> "plugin-settings", audiofile |-> ""]}

\* lines 220-235: the path is stored (line 228) before the file is looked
\* for; a file that exists is loaded.
SetStateInformation(data) ==
    /\ audioPc = "idle"
    /\ IF data.tag = "plugin-settings"
       THEN /\ currentlyLoadedFile' = data.audiofile
            /\ IF FileAt(data.audiofile).exists
               THEN /\ audioPc' = "a_unload"
                    /\ audioFile' = FileAt(data.audiofile)
                    /\ preAudio' = <<transportSource, data.audiofile>>
               ELSE UNCHANGED <<audioPc, audioFile, preAudio>>
       ELSE UNCHANGED <<currentlyLoadedFile, audioPc, audioFile, preAudio>>
    /\ UNCHANGED <<currentAudioFileSource, transportSource, reader, destData,
                   lastLoaded, savedFor>>
    /\ UNCHANGED midiVars

AudioNext ==
    \/ \E file \in AudioFiles : AudioCall(file)
    \/ AudioUnload
    \/ AudioCreateReader
    \/ AudioStorePath
    \/ AudioSetSource
    \/ AudioReturn
    \/ GetStateInformation
    \/ \E data \in StateBlocks : SetStateInformation(data)

Next == RtNext \/ CtlNext

Spec == Init /\ [][Next]_vars

\* The device takes no part in the locking: the runs of the scheduled audio
\* thread start with no device attached.
InitRT == Init /\ ~lumi

\* The audio thread is scheduled: the host calls processBlock block after
\* block, and a started call runs on.
SpecRT == InitRT /\ [][Next]_vars /\ WF_vars(RtNext)

\* The audio-file calls of the control plane, on their own: they share no
\* member with the timeline's code.
SpecAudio == Init /\ [][AudioNext]_vars

\* ------------------------------------------------------------------ claims
\* the payloads of the events of a track with StartTime <= t < the track's end
\* time, in the track's order
WindowPayloads(track) ==
    LET due == SelectSeq(track, LAMBDA e : e.ts >= StartTime /\ e.ts < GetEndTime(track))
    IN  [k \in 1..Len(due) |-> due[k].data]

\* C1: a block that acquired the lock with numTracks > 0 and ran the scan loop
\* has given the sink exactly the payloads of the events of the track it
\* selected whose timestamp t has StartTime <= t < the track's end time, each
\* once, in the track's order.
C1_ScanForwardsWindow ==
    (rtPc = "exit" /\ branch = "scanned") => sinkCalls = WindowPayloads(scanTrack)

playbackState == <<numTracks, currentTrack, trackHasChanged, isPlayingSomething,
                   nextStartTime>>

\* C3: in a block whose try-lock fails, the failed attempt itself changes
\* nothing; then, if isPlayingSomething is true, a Safety Flush is appended to
\* the block's MidiBuffer and isPlayingSomething is cleared, and if it is
\* false, the block appends nothing, forwards nothing and changes no field of
\* the playback state; either way isPlayingSomething is false when the block
\* ends and nothing has reached the sink.
C3_LockFailed ==
    /\ [][/\ (rtPc = "lock" /\ rtPc' = "notAcquired")
             => UNCHANGED <<playbackState, MIDIFile, outputs>>
          /\ (rtPc = "notAcquired" /\ rtPc' # rtPc)
             => IF isPlayingSomething
                THEN /\ midiMessages' = midiMessages \o SafetyFlush
                     /\ ~isPlayingSomething'
                     /\ UNCHANGED <<numTracks, currentTrack, trackHasChanged,
                                    nextStartTime, MIDIFile, sinkCalls, deviceLog>>
                ELSE UNCHANGED <<playbackState, MIDIFile, outputs>>]_vars
    /\ []((rtPc = "exit" /\ branch = "notAcquired")
            => /\ ~isPlayingSomething
               /\ sinkCalls = <<>>
               /\ midiMessages \in {<<>>, SafetyFlush})

\* A block that failed to get the lock while something was sounding has ended
\* with the Safety Flush in its MidiBuffer.
C3_Witness ==
    /\ rtPc = "exit"
    /\ branch = "notAcquired"
    /\ midiMessages = SafetyFlush
    /\ ~isPlayingSomething

\* the positions of processBlock between taking the lock and its last read of
\* the timeline
ScanPcs == {"check", "getTrack", "prelude", "branch", "scan"}

\* the positions of loadMIDIFile at which some of its writes are done and
\* some are not
MidLoadPcs == {"l_read", "l_conv", "l_num", "l_cur", "l_chg"}

\* C4: a scan is atomic with respect to a load: while processBlock holds the
\* lock and reads the timeline, numTracks, currentTrack and trackHasChanged,
\* no load is part-way through its writes.
C4_ScanAtomicWithLoad ==
    (processLock = "rt" /\ rtPc \in ScanPcs) => ctlPc \notin MidLoadPcs

\* C5: in every state, those inside a load included, numTracks > 0 implies
\* that currentTrack is an index of a track of the stored timeline.
C5_CurrentTrackValid ==
    numTracks > 0 => (currentTrack >= 0 /\ currentTrack < Len(MIDIFile))

\* C6: when a load of a readable, well-formed file returns, currentTrack = 0,
\* trackHasChanged = FALSE and numTracks is the number of tracks of the file.
C6_LoadResets ==
    (ctlPc = "l_ret" /\ stream.ok)
        => /\ currentTrack = 0
           /\ trackHasChanged = FALSE
           /\ numTracks = Len(stream.tracks)

\* A load of a two-track file returns while something is sounding.
C6_Witness ==
    /\ ctlPc = "l_ret"
    /\ stream.ok
    /\ numTracks = 2
    /\ Len(MIDIFile) = 2
    /\ isPlayingSomething

\* C7: when a load of an unreadable or malformed file returns, the timeline,
\* numTracks, currentTrack and trackHasChanged are what they were when the
\* load started (isPlayingSomething and nextStartTime are written by no step
\* of loadMIDIFile).
C7_FailedLoadKeepsState ==
    (ctlPc = "l_ret" /\ ~stream.ok)
        => <<MIDIFile, numTracks, currentTrack, trackHasChanged>> = preLoad

\* C8: every call of sendAllNotesOff appends exactly the 48 messages of the
\* Safety Flush (channel 1 to 16, for each all notes off, all sound off, all
\* controllers off) to the MidiBuffer and leaves isPlayingSomething false.
C8_FlushIs48 ==
    /\ [][flushes' = flushes + 1
            => /\ midiMessages' = midiMessages \o SafetyFlush
               /\ Len(midiMessages') = Len(midiMessages) + 48
               /\ ~isPlayingSomething']_vars
    /\ [](Len(midiMessages) = 48 * flushes)

\* Two Safety Flushes in one block: 96 messages.
C8_Witness ==
    /\ flushes = 2
    /\ midiMessages = SafetyFlush \o SafetyFlush
    /\ midiMessages[1] = [kind |-> "allNotesOff", channel |-> 1]
    /\ midiMessages[48] = [kind |-> "allControllersOff", channel |-> 16]

\* C9: processBlock never waits for the lock: with the lock held by the
\* control plane the try-lock step takes the not-acquired branch, and as long
\* as the lock stays held blocks keep returning.
C9_NeverWaits ==
    /\ [][(rtPc = "lock" /\ processLock = "ctl" /\ rtPc' # rtPc)
            => rtPc' = "notAcquired"]_vars
    /\ [](processLock = "ctl" => <>(processLock # "ctl" \/ rtPc = "exit"))

\* A block returns through the not-acquired branch while the control plane
\* holds the lock.
C9_Witness ==
    /\ processLock = "ctl"
    /\ rtPc = "exit"
    /\ branch = "notAcquired"

\* C10: in every block the audio source is pulled exactly once, before the
\* lock attempt, whatever the lock, numTracks, isPlayingSomething and
\* trackHasChanged are.
C10_PullOnceFirst ==
    /\ rtPc \in {"idle", "pull"} => pulls = 0
    /\ rtPc \in {"lock", "notAcquired", "check", "getTrack", "prelude", "branch",
                 "scan", "exit"} => pulls = 1
    /\ rtPc = "crashed" => pulls = 1

\* A block that did not get the lock, while trackHasChanged was set and
\* nothing was sounding, has pulled once.
C10_Witness ==
    /\ rtPc = "exit"
    /\ branch = "notAcquired"
    /\ trackHasChanged
    /\ numTracks > 0
    /\ pulls = 1

\* C11 as stated: a scan of a track whose end time is above 0 forwards all the
\* track's events in the track's order, those at the end time included, and
\* isPlayingSomething is true afterwards.
C11_ForwardsAllEvents ==
    (rtPc = "exit" /\ branch = "scanned" /\ GetEndTime(scanTrack) > 0)
        => /\ sinkCalls = [k \in 1..Len(scanTrack) |-> scanTrack[k].data]
           /\ isPlayingSomething

\* C11, amended: each turn of the scan loop forwards the event it reads
\* exactly when the event's timestamp t has StartTime <= t < endTime, the
\* local of line 138; an event at the end time is not forwarded; the turns
\* go through the track in its order, and isPlayingSomething is true after a
\* turn that forwards.
C11_ForwardsBeforeEndTime ==
    [][(rtPc = "scan" /\ i' = i + 1)
        => \E seq \in Views :
            /\ i < Len(seq)
            /\ IF seq[i + 1].ts >= StartTime /\ seq[i + 1].ts < endTime
               THEN /\ sinkCalls' = Append(sinkCalls, seq[i + 1].data)
                    /\ isPlayingSomething'
               ELSE /\ sinkCalls' = sinkCalls
                    /\ isPlayingSomething' = isPlayingSomething]_vars

\* The design's example: a block has scanned a track of three events whose
\* last is at the end time; the first two have been forwarded in order, the
\* third has not.
C11_Witness ==
    /\ rtPc = "exit"
    /\ branch = "scanned"
    /\ Len(scanTrack) = 3
    /\ scanTrack[3].ts = endTime
    /\ endTime > 0
    /\ sinkCalls = <<scanTrack[1].data, scanTrack[2].data>>
    /\ isPlayingSomething

\* C12 as stated: the block before forwarded the current track's events and
\* left isPlayingSomething set, no load and no track switch has come since;
\* the block that now takes the lock goes the way of line 148: it emits a
\* Safety Flush and forwards no event.
C12_NextScanExhausted ==
    (trackPlayed /\ rtPc = "exit" /\ processLock = "rt")
        => /\ branch = "exhausted"
           /\ flushes >= 1
           /\ sinkCalls = <<>>

\* C13: when loadAudioFileIntoTransport finds no reader, the source that was
\* installed before the call is still installed when it returns and the path
\* of currentlyLoadedFile is the one before the call; and the path that
\* getStateInformation writes is that of the last audio file a reader was
\* made for.
C13_FailedAudioLoadKeepsState ==
    /\ (audioPc = "a_ret" /\ reader = "none")
        => /\ transportSource = preAudio[1]
           /\ currentlyLoadedFile = preAudio[2]
    /\ destData.tag = "plugin-settings" => destData.audiofile = savedFor

\* C14: when a load of a readable file returns nextStartTime is 0, no step of
\* the load has changed isPlayingSomething, and so the first block that
\* comes to line 142 after the load emits no Safety Flush there.
C14_LoadResetsWindowEnd ==
    /\ [](ctlPc = "l_ret" /\ stream.ok => nextStartTime = 0)
    /\ [][ctlPc' # ctlPc => isPlayingSomething' = isPlayingSomething]_vars
    /\ [][(freshLoad /\ rtPc = "prelude" /\ rtPc' = "branch")
            => flushes' = flushes]_vars

C16_NoTracksNoEffect ==
    /\ [][(rtPc = "check" /\ numTracks = 0 /\ rtPc' # rtPc)
            => /\ rtPc' = "exit"
               /\ UNCHANGED <<isPlayingSomething, nextStartTime, trackHasChanged,
                              currentTrack, outputs>>]_vars
    /\ []((rtPc = "exit" /\ branch = "noTracks")
            => /\ processLock = "rt"
               /\ flushes = 0
               /\ midiMessages = <<>>
               /\ sinkCalls = <<>>
               /\ deviceLog = <<>>)

\* A block holding the lock has found no track while isPlayingSomething was
\* set, and has come to its end with the flag still set.
C16_Witness ==
    /\ rtPc = "exit"
    /\ branch = "noTracks"
    /\ processLock = "rt"
    /\ numTracks = 0
    /\ isPlayingSomething
    /\ midiMessages = <<>>

\* a step of processBlock; a step of loadMIDIFile
RtStep == rtPc' # rtPc \/ i' # i
LoadStep ==
    ctlPc' # ctlPc /\ (ctlPc \in MidLoadPcs \cup {"l_ret"} \/ ctlPc' = "l_read")

\* C17 as stated: no step of processBlock writes numTracks, currentTrack or
\* trackHasChanged, and no step of loadMIDIFile writes isPlayingSomething or
\* nextStartTime.
C17_SingleWriter ==
    [][/\ RtStep => UNCHANGED <<numTracks, currentTrack, trackHasChanged>>
       /\ LoadStep => UNCHANGED <<isPlayingSomething, nextStartTime>>]_vars

\* C17, amended: no step of processBlock writes numTracks or currentTrack,
\* and the one write of trackHasChanged by processBlock is the clearing of
\* lines 154-158, which comes with a Safety Flush; no step of loadMIDIFile
\* writes isPlayingSomething or nextStartTime.
C17_WritersOfPlaybackState ==
    [][/\ RtStep
            => /\ UNCHANGED <<numTracks, currentTrack>>
               /\ trackHasChanged' # trackHasChanged
                    => /\ rtPc = "branch"
                       /\ trackHasChanged
                       /\ ~trackHasChanged'
                       /\ midiMessages' = midiMessages \o SafetyFlush
       /\ LoadStep => UNCHANGED <<isPlayingSomething, nextStartTime>>]_vars

\* processBlock has cleared trackHasChanged: the block has emitted the flush
\* of line 143 and that of line 157 and is at the loop; a load has returned
\* before with nextStartTime above 0.
C17_Witness ==
    /\ rtPc = "scan"
    /\ flushes = 2
    /\ ~trackHasChanged
    /\ midiMessages = SafetyFlush \o SafetyFlush
    /\ ctlPc = "idle"
    /\ nextStartTime > 0
    /\ numTracks > 0

\* C18: at every block boundary, between two blocks and at a block's end,
\* isPlayingSomething is true exactly when an event has been forwarded to the
\* sink since the last Safety Flush, or since the start when there has been
\* no flush.
C18_FlagIffForwardedSinceFlush ==
    rtPc \in {"idle", "exit"} => (isPlayingSomething <=> forwardedSinceFlush)

\* A block has emitted a Safety Flush and forwarded an event after it; the
\* flag is set at the block's end.
C18_Witness ==
    /\ rtPc = "exit"
    /\ flushes >= 1
    /\ Len(midiMessages) = 3 * NumChannels * flushes
    /\ sinkCalls # <<>>
    /\ isPlayingSomething
    /\ forwardedSinceFlush

\* the kinds of the messages of a Safety Flush
FlushKindSet == {FlushKinds[k] : k \in DOMAIN FlushKinds}

\* C19: the two outputs are disjoint: every message in the block's MidiBuffer
\* is a message of a Safety Flush and none is an event of the timeline; every
\* payload the sink was called with, and every payload the device got, is an
\* event of the timeline and none is a message of a Safety Flush.
C19_OutputsDisjoint ==
    /\ \A k \in DOMAIN midiMessages :
        /\ midiMessages[k].kind \in FlushKindSet
        /\ midiMessages[k] = SafetyFlush[((k - 1) % (3 * NumChannels)) + 1]
    /\ \A k \in DOMAIN sinkCalls : sinkCalls[k].kind = "note"
    /\ \A k \in DOMAIN deviceLog : deviceLog[k].kind = "note"

\* A block has emitted a Safety Flush and then forwarded two events, and the
\* device has got them.
C19_Witness ==
    /\ rtPc = "exit"
    /\ midiMessages = SafetyFlush
    /\ Len(sinkCalls) = 2
    /\ deviceLog = sinkCalls
    /\ lumi

====
